---- MODULE Spec2Model ----
(***************************************************************************)
(* Model of the two interactive OceanBase console tools of the repository: *)
(*   ob_admin_cli.py  ("admin":  list-form menu, pagination, CSV export,   *)
(*                      dangerous-statement confirmation)                  *)
(*   ob_gemini_v1.py  ("gemini": keyed-map menu re-read at every display)  *)
(* A statement is a sequence of tokens: a token is either a word or one    *)
(* delimiter character.  Program positions (pc) are the input() calls at   *)
(* which the single thread blocks; one action is one input together with   *)
(* all the code that runs until the next input.  Locals the code never     *)
(* reads again (paginate's page once paginate has returned; main's sql,    *)
(* lines and rows once control is back at the menu prompt) are cleared at  *)
(* that point.  execCall, msg, layout, cols, max_width and cleaned record  *)
(* what the last step did.  A result set is a sequence of rows, a row a    *)
(* sequence of cells in header order, a cell text a sequence of            *)
(* one-character tokens.                                                   *)
(***************************************************************************)
EXTENDS Integers, Sequences, FiniteSets, TLC

VARIABLES
    prog,          \* which script runs: "admin" | "gemini"
    pc,            \* position of the single thread of control
    conn,          \* database handle: "none" | "open" | "closed"
    closeCalls,    \* number of calls of the handle's close()
    exitCode,      \* -1 while running, else the process exit code
    cfg,           \* the configuration resource (environment)
    queries,       \* admin: menu snapshot, sequence of [title, sql]
    queries_menu,  \* gemini: value returned by load_queries()
    sorted_keys,   \* gemini: keys listed by the last menu display
    item,          \* gemini: item awaiting its parameter
    sql,           \* admin: statement awaiting confirmation
    lines,         \* admin: lines of the custom statement read so far
    execCall,      \* the cursor.execute call made by the last step, if any
    msg,           \* last message reported to the user
    rows,          \* admin: current result set
    page_size,     \* admin: paginate's page_size
    page,          \* admin: paginate's page
    shown,         \* admin: rows handed to print_table for the current page
    exportArg,     \* admin: rows handed to save_csv by the last export
    layout,        \* layout the last step chose for the rows it printed:
                   \* "none" | "Horizontal" | "Vertical"
    cols,          \* terminal width the last step's width computation used, 0 if none
    max_width,     \* per-column width the last step computed or was given, 0 if none
    cleaned        \* text the last cleaning of a cell produced, <<>> if none

vars == <<prog, pc, conn, closeCalls, exitCode, cfg, queries, queries_menu,
          sorted_keys, item, sql, lines, execCall, msg, rows,
          page_size, page, shown, exportArg, layout, cols, max_width, cleaned>>

----------------------------------------------------------------------------
(* Bounds of the model *)

\* lines typed at the custom-statement prompt
MaxLines == 2
\* rows and page size when paginate is exercised on its own
MaxRows == 6
MaxPageSize == 3
\* columns and rows of the result sets, length of the cell texts, widths and
\* terminal widths when the printers' functions are exercised on their own
MaxCols == 11
MaxResultRows == 2
MaxCellLen == 4
MaxWidth == 4
MaxTermWidth == 100

----------------------------------------------------------------------------
(* Tokens and strings *)

SP == " "
NL == "\n"
TAB == "\t"
CR == "\r"
\* a whitespace character other than the three that clean() replaces
FF == "\f"

\* str.isspace() on a one-character token
Whitespace == {SP, NL, TAB, CR, FF}

\* characters that are not part of a word
Delims == Whitespace \cup {";", "(", ")", ",", "%", "*", "="}

\* str.lower() on one token
LowerTok(t) ==
    CASE t = "DROP" -> "drop"
      [] t = "Delete" -> "delete"
      [] t = "DELETE" -> "delete"
      [] t = "YES" -> "yes"
      [] t = "Yes" -> "yes"
      [] t = "NO" -> "no"
      [] t = "R" -> "r"
      [] t = "N" -> "n"
      [] t = "P" -> "p"
      [] t = "S" -> "s"
      [] t = "Q" -> "q"
      [] t = "C" -> "c"
      [] t = "SELECT" -> "select"
      [] t = "VERSION" -> "version"
      [] t = "AS" -> "as"
      [] t = "FROM" -> "from"
      [] t = "SHOW" -> "show"
      [] t = "LIMIT" -> "limit"
      [] t = "PROCESSLIST" -> "processlist"
      [] t = "DATABASES" -> "databases"
      [] t = "TABLES" -> "tables"
      [] t = "LEFT" -> "left"
      [] t = "JOIN" -> "join"
      [] t = "USING" -> "using"
      [] t = "ORDER" -> "order"
      [] t = "BY" -> "by"
      [] t = "DBA_OB_SERVERS" -> "dba_ob_servers"
      [] t = "DBA_OB_TENANTS" -> "dba_ob_tenants"
      [] t = "DBA_OB_ZONES" -> "dba_ob_zones"
      [] t = "DBA_OB_UNITS" -> "dba_ob_units"
      [] t = "GV$OB_PARAMETERS" -> "gv$ob_parameters"
      [] OTHER -> t

\* str.lower()
Lower(s) == [i \in DOMAIN s |-> LowerTok(s[i])]

\* str.upper() on one token
UpperTok(t) ==
    CASE t = "q" -> "Q"
      [] t = "r" -> "R"
      [] t = "c" -> "C"
      [] t = "a" -> "A"
      [] t = "b" -> "B"
      [] t = "x" -> "X"
      [] t = "zz" -> "ZZ"
      [] OTHER -> t

\* str.upper()
Upper(s) == [i \in DOMAIN s |-> UpperTok(s[i])]

RECURSIVE LStrip(_)
LStrip(s) ==
    IF s # <<>> /\ Head(s) \in Whitespace THEN LStrip(Tail(s)) ELSE s

RECURSIVE RStrip(_)
RStrip(s) ==
    IF s # <<>> /\ s[Len(s)] \in Whitespace
    THEN RStrip(SubSeq(s, 1, Len(s) - 1))
    ELSE s

\* str.strip()
Strip(s) == RStrip(LStrip(s))

\* sep.join(parts)
RECURSIVE Join(_, _)
Join(parts, sep) ==
    IF parts = <<>> THEN <<>>
    ELSE IF Len(parts) = 1 THEN parts[1]
    ELSE parts[1] \o <<sep>> \o Join(Tail(parts), sep)

\* `pat in s` for strings
Contains(s, pat) ==
    \E i \in 0..(Len(s) - Len(pat)) : SubSeq(s, i + 1, i + Len(pat)) = pat

\* str.replace(old, new) for a one-token `old`
RECURSIVE Replace(_, _, _)
Replace(s, old, new) ==
    IF s = <<>> THEN <<>>
    ELSE (IF Head(s) = old THEN new ELSE <<Head(s)>>) \o Replace(Tail(s), old, new)

\* Python slice seq[a:b] for 0 <= a
Slice(seq, a, b) ==
    LET hi == IF b < Len(seq) THEN b ELSE Len(seq)
    IN  IF a >= hi THEN <<>> ELSE SubSeq(seq, a + 1, hi)

Min(a, b) == IF a < b THEN a ELSE b

Max(a, b) == IF a > b THEN a ELSE b

\* `c in s` for a character c
InText(c, s) == \E i \in DOMAIN s : s[i] = c

----------------------------------------------------------------------------
(* The configuration resource *)

\* One entry of the configuration document.  obj = FALSE is an entry that is
\* not a JSON object; title = "" and hasSql = FALSE are absent fields.
Entry(k, t, ty, s, en) ==
    [obj |-> TRUE, key |-> k, title |-> t, type |-> ty, hasSql |-> TRUE,
     sql |-> s, enabled |-> en]

NotObject(k) ==
    [obj |-> FALSE, key |-> k, title |-> "", type |-> "", hasSql |-> FALSE,
     sql |-> <<>>, enabled |-> TRUE]

NoSql(k, t) ==
    [obj |-> TRUE, key |-> k, title |-> t, type |-> "simple", hasSql |-> FALSE,
     sql |-> <<>>, enabled |-> TRUE]

NoItem == NotObject("")

\* kind: "absent" (no such file), "unreadable" (open fails), "badjson",
\* "list" (valid JSON, top-level list), "dict" (valid JSON object)
Config(k, its) == [kind |-> k, items |-> its]

CUSTOM == <<"__CUSTOM__">>

SelectT == <<"select", "*", SP, "from", SP, "t">>
DropT == <<"DROP", SP, "table", SP, "t", ";">>
DeleteNlT == <<"Delete", NL, "from", SP, "t">>
SelectDb == <<SP, "select", SP, "{db}", SP>>
DeleteFromT == <<"DELETE", SP, "FROM", SP, "t">>

\* list form: items are the elements of "queries"
AdminConfigs ==
    { Config("absent", <<>>),
      Config("unreadable", <<>>),
      Config("badjson", <<>>),
      Config("list", <<>>),
      Config("dict", <<>>),
      Config("dict", << Entry("", "sel", "", SelectT, TRUE),
                        Entry("", "custom", "", CUSTOM, TRUE),
                        Entry("", "del", "", DeleteFromT, TRUE) >>),
      Config("dict", << Entry("", "drop", "", DropT, TRUE),
                        Entry("", "off", "", SelectT, FALSE),
                        Entry("", "", "", SelectT, TRUE) >>),
      Config("dict", << Entry("", "custom", "", CUSTOM, FALSE) >>),
      Config("dict", << Entry("", "sel", "", SelectT, TRUE), NotObject("") >>),
      Config("dict", << Entry("", "delnl", "", DeleteNlT, TRUE),
                        Entry("", "db", "", SelectDb, TRUE),
                        NoSql("", "nosql") >>) }

\* keyed-map form: items are the key/value pairs of the top-level object
GeminiConfigs ==
    { Config("absent", <<>>),
      Config("badjson", <<>>),
      Config("list", <<>>),
      Config("dict", <<>>),
      Config("dict", << Entry("2", "param", "parameter_query",
                              <<"select", SP, "{query}">>, TRUE),
                        Entry("10", "sel", "simple", SelectT, TRUE),
                        Entry("1", "drop", "simple", DropT, TRUE) >>),
      Config("dict", << Entry("5", "off", "simple", SelectT, FALSE),
                        Entry("1", "sel", "simple", SelectT, TRUE) >>),
      Config("dict", << Entry("5", "on", "simple", SelectT, TRUE),
                        Entry("1", "sel", "simple", SelectT, TRUE) >>),
      Config("dict", << Entry("1", "sel", "simple", SelectT, TRUE),
                        NotObject("2") >>),
      Config("dict", << Entry("a", "lower", "simple", SelectT, TRUE),
                        Entry("Q", "quitkey", "simple", DropT, TRUE),
                        Entry("R", "reloadkey", "simple", DropT, TRUE),
                        Entry("C", "customkey", "simple", DropT, TRUE),
                        Entry("c", "lowerc", "simple", DropT, TRUE),
                        NoSql("B", "nosql"),
                        Entry("X", "odd", "other", SelectT, TRUE) >>),
      Config("dict", << Entry("a", "lower", "simple", SelectT, TRUE),
                        Entry("A", "upper", "simple", DeleteFromT, TRUE) >>) }

Configs(p) == IF p = "admin" THEN AdminConfigs ELSE GeminiConfigs

\* the database name typed at start-up (its default)
Database == <<"oceanbase">>

----------------------------------------------------------------------------
(* ob_admin_cli.py: menu loading *)

MenuItem(t, s) == [title |-> t, sql |-> s]

BuiltinQueries(db) ==
    << MenuItem("version", <<"SELECT", SP, "VERSION", "(", ")", SP, "AS", SP, "version", ";">>),
       MenuItem("servers", <<"SELECT", SP, "*", SP, "FROM", SP>> \o db \o <<".", "DBA_OB_SERVERS", ";">>),
       MenuItem("tenants", <<"SELECT", SP, "tenant_id", ",", SP, "tenant_name", ",", SP,
                             "compatibility_mode", ",", SP, "status", ",", SP, "locality", SP,
                             "FROM", SP>> \o db \o <<".", "DBA_OB_TENANTS", ";">>),
       MenuItem("zones", <<"SELECT", SP, "*", SP, "FROM", SP>> \o db \o <<".", "DBA_OB_ZONES", ";">>),
       MenuItem("units", <<"SELECT", SP, "*", SP, "FROM", SP>> \o db \o <<".", "DBA_OB_UNITS", ";">>),
       MenuItem("parameters", <<"SELECT", SP, "*", SP, "FROM", SP>> \o db
                              \o <<".", "GV$OB_PARAMETERS", SP, "LIMIT", SP, "200", ";">>),
       MenuItem("processlist", <<"SHOW", SP, "PROCESSLIST", ";">>),
       MenuItem("databases", <<"SHOW", SP, "DATABASES", ";">>),
       MenuItem("tables", <<"SHOW", SP, "TABLES", ";">>),
       MenuItem("tenant_resources",
                <<NL, SP, "SELECT", SP, "t.tenant_id", ",", SP, "t.tenant_name", ",", SP,
                  "u.unit_id", ",", SP, "u.resource_pool_id", ",", SP, "u.zone", ",", SP,
                  "u.max_cpu", ",", SP, "u.max_memory", NL, SP, "FROM", SP>> \o db
                \o <<".", "DBA_OB_TENANTS", SP, "t", NL, SP, "LEFT", SP, "JOIN", SP>> \o db
                \o <<".", "DBA_OB_UNITS", SP, "u", SP, "USING", "(", "tenant_id", ")", NL, SP,
                     "ORDER", SP, "BY", SP, "t.tenant_id", ",", SP, "u.unit_id", ";", NL, SP>>),
       MenuItem("server_status",
                <<NL, SP, "SELECT", SP, "svr_ip", ",", SP, "svr_port", ",", SP, "zone", ",", SP,
                  "status", ",", SP, "start_service_time", ",", SP, "stop_time", NL, SP,
                  "FROM", SP>> \o db
                \o <<".", "DBA_OB_SERVERS", NL, SP, "ORDER", SP, "BY", SP, "zone", ",", SP,
                     "svr_ip", ";", NL, SP>>),
       MenuItem("custom", CUSTOM) >>

\* the loop of lines 213-223 over the items that remain
RECURSIVE CollectQueries(_, _)
CollectQueries(its, db) ==
    IF its = <<>> THEN <<>>
    ELSE LET it == Head(its)
             s == IF it.hasSql THEN Strip(it.sql) ELSE <<>>
             rest == CollectQueries(Tail(its), db)
         IN  IF ~it.enabled \/ it.title = "" \/ s = <<>>
             THEN rest
             ELSE <<MenuItem(it.title, IF s # CUSTOM THEN Replace(s, "{db}", db) ELSE s)>>
                  \o rest

HasCustom(qs) == \E i \in DOMAIN qs : qs[i].sql = CUSTOM

InjectCustom_None(qs) == qs

\* lines 225-227: a custom entry is appended when the configuration has none
InjectCustom(qs) ==
    IF ~HasCustom(qs) THEN Append(qs, MenuItem("custom", CUSTOM)) ELSE qs

\* load_menu_from_json: status "none" is the None result, "raise" an
\* exception that leaves the function, "ok" a menu
LoadMenuFromJson(c, db) ==
    IF c.kind = "absent" THEN [status |-> "none", qs |-> <<>>]
    ELSE IF c.kind \in {"unreadable", "badjson"} THEN [status |-> "none", qs |-> <<>>]
    ELSE IF c.kind = "list" THEN [status |-> "raise", qs |-> <<>>]
    ELSE IF \E i \in DOMAIN c.items : ~c.items[i].obj THEN [status |-> "raise", qs |-> <<>>]
    ELSE LET qs == InjectCustom(CollectQueries(c.items, db))
         IN  IF qs # <<>> THEN [status |-> "ok", qs |-> qs]
             ELSE [status |-> "none", qs |-> <<>>]

----------------------------------------------------------------------------
(* ob_admin_cli.py: the dangerous-statement check *)

DANGER == {"drop", "truncate", "delete", "alter", "shutdown", "kill"}

\* lines 384-386: any(k in low for k in DANGER), low = " " + sql.lower() + " "
IsDangerous(stmt) ==
    LET low == <<SP>> \o Lower(stmt) \o <<SP>>
    IN  \E k \in DANGER : Contains(low, <<SP, k, SP>>)

----------------------------------------------------------------------------
(* Cells, result sets, and the pure functions of the two printers *)

\* one value of a result row; kind is the Python type of the value:
\* "str" | "bytes" | "int" | "null" (None)
Cell(k, t) == [kind |-> k, text |-> t]

Null == Cell("null", <<>>)

StrCell(t) == Cell("str", t)

\* the one-character ellipsis U+2026 that clean() appends
ELLIPSIS == "..."

\* a character that UTF-8 cannot encode (a lone surrogate, U+DC80)
SUR == "<U+DC80>"

\* how repr() writes one byte of a bytes value
ReprByte(c) ==
    CASE c = NL -> <<"\\", "n">>
      [] c = TAB -> <<"\\", "t">>
      [] c = CR -> <<"\\", "r">>
      [] c = FF -> <<"\\", "x", "0", "c">>
      [] OTHER -> <<c>>

RECURSIVE ReprBytes(_)
ReprBytes(t) == IF t = <<>> THEN <<>> ELSE ReprByte(Head(t)) \o ReprBytes(Tail(t))

\* str(val)
Str(val) ==
    CASE val.kind = "null" -> <<"N", "o", "n", "e">>
      [] val.kind = "bytes" -> <<"b", "'">> \o ReprBytes(val.text) \o <<"'">>
      [] OTHER -> val.text

\* .replace("\r", " ").replace("\n", " ").replace("\t", " ")
ReplaceCtl(s) == [i \in DOMAIN s |-> IF s[i] \in {CR, NL, TAB} THEN SP ELSE s[i]]

\* s.split()
RECURSIVE Split(_)
Split(s) ==
    LET t == LStrip(s)
    IN  IF t = <<>> THEN <<>>
        ELSE LET k == CHOOSE j \in 1..(Len(t) + 1) :
                          /\ j = Len(t) + 1 \/ t[j] \in Whitespace
                          /\ \A i \in 1..(j - 1) : t[i] \notin Whitespace
             IN  <<SubSeq(t, 1, k - 1)>> \o Split(SubSeq(t, k, Len(t)))

\* ob_admin_cli.py lines 88-91: what cannot be encoded is written as its
\* backslash escape
RECURSIVE EncodeFallback(_)
EncodeFallback(s) ==
    IF s = <<>> THEN <<>>
    ELSE (IF Head(s) = SUR THEN <<"\\", "u", "d", "c", "8", "0">> ELSE <<Head(s)>>)
         \o EncodeFallback(Tail(s))

\* Python slice s[:k]
Prefix(s, k) ==
    IF k >= 0 THEN SubSeq(s, 1, Min(k, Len(s)))
    ELSE SubSeq(s, 1, Max(0, Len(s) + k))

Truncate_Keep(s, mw) == IF Len(s) > mw THEN Prefix(s, mw) \o <<ELLIPSIS>> ELSE s

\* ob_admin_cli.py lines 92-93
Truncate(s, mw) == IF Len(s) > mw THEN Prefix(s, mw - 1) \o <<ELLIPSIS>> ELSE s

Collapse_Not(s) == s

\* ob_admin_cli.py line 86: " ".join(s.split())
Collapse(s) == Join(Split(s), SP)

\* print_table.clean, ob_admin_cli.py lines 80-94, with max_width = mw
Clean(val, mw) ==
    IF val.kind = "null" THEN <<>>
    ELSE Truncate(EncodeFallback(Collapse(ReplaceCtl(Str(val)))), mw)

\* the cell the loops over rows and columns visit last
LastCell(rs) == rs[Len(rs)][Len(rs[Len(rs)])]

\* len(headers): ob_admin_cli.py line 76, ob_gemini_v1.py line 207
HeaderCount(rs) == Len(rs[1])

\* what the query of the terminal size answers: a width, or a failure
Terminal(isOk, c) == [ok |-> isOk, columns |-> c]

NoTerminal == Terminal(FALSE, 0)

\* defaults of adaptive_cell_width
min_w == 24
max_w == 80

\* ob_admin_cli.py lines 52-55 (fallback 120), ob_gemini_v1.py lines 156-160
\* (fallback 80)
TerminalColumns(p, t) == IF t.ok THEN t.columns ELSE IF p = "admin" THEN 120 ELSE 80

AdaptiveCellWidth_NoFloor(n, c) == Min(max_w, Max(40, c - 16) \div Max(1, n))

\* adaptive_cell_width, ob_admin_cli.py lines 57-61, for len(headers) = n and
\* terminal width c
AdaptiveCellWidth(n, c) == Max(min_w, Min(max_w, Max(40, c - 16) \div Max(1, n)))

\* ob_gemini_v1.py lines 162-169
MaxColWidth(n, c) == Min(40, Max(10, (c - (n * 3) - 1) \div n))

\* ob_gemini_v1.py line 172
MaxColWidthsList(n, c) == [i \in 1..n |-> MaxColWidth(n, c)]

\* the width each column is printed with
ColumnWidths(p, n, c) ==
    IF p = "admin" THEN [i \in 1..n |-> AdaptiveCellWidth(n, c)]
    ELSE MaxColWidthsList(n, c)

\* ob_gemini_v1.py lines 147-152: cleaned_item, for a str or bytes value
CleanedItem(val) ==
    IF val.kind \in {"str", "bytes"} THEN ReplaceCtl(Str(val)) ELSE <<>>

MAX_HORIZONTAL_COLS == 10

\* ob_gemini_v1.py line 217
IsTooWide(rs) == HeaderCount(rs) > MAX_HORIZONTAL_COLS

HasNewlines_Never(rs) == FALSE

\* ob_gemini_v1.py lines 220-225
HasNewlines(rs) ==
    /\ ~IsTooWide(rs)
    /\ \E i \in DOMAIN rs : \E j \in DOMAIN rs[i] :
          rs[i][j].kind = "str" /\ InText(NL, rs[i][j].text)

\* ob_gemini_v1.py lines 228-236: which printer is called
LayoutDecision(rs) ==
    IF IsTooWide(rs) \/ HasNewlines(rs) THEN "Vertical" ELSE "Horizontal"

Digit == <<"0", "1", "2", "3", "4", "5", "6", "7", "8", "9">>

\* str(i) for a natural number
RECURSIVE DigitsOf(_)
DigitsOf(i) ==
    IF i < 10 THEN <<Digit[i + 1]>> ELSE DigitsOf(i \div 10) \o <<Digit[(i % 10) + 1]>>

\* a result set of nrows rows and ncols columns: an integer key in the first
\* column, the text "a" elsewhere, and the cell `special` at row r, column c
ResultSet(nrows, ncols, r, c, special) ==
    [i \in 1..nrows |->
        [j \in 1..ncols |->
            IF i = r /\ j = c THEN special
            ELSE IF j = 1 THEN Cell("int", DigitsOf(i))
            ELSE StrCell(<<"a">>)]]

----------------------------------------------------------------------------
(* Process-level outcomes *)

NoExec == [called |-> FALSE, stmt |-> <<>>, confirmed |-> FALSE]

\* cursor.execute(stmt); confirmed: the confirmation prompt was answered yes
ExecCall(stmt, conf) == [called |-> TRUE, stmt |-> stmt, confirmed |-> conf]

\* page size main passes to paginate
DefaultPageSize == 20

\* a two-column result set of n rows
RowsOf(n) == ResultSet(n, 2, 0, 0, Null)

\* sizes of the result sets the database returns in a session
ResultSizes == {0, 1, 2 * DefaultPageSize + 1}

\* the result sets the database returns in a session: of those sizes, one
\* with more columns than MAX_HORIZONTAL_COLS, one with a line feed in a cell
SessionResults ==
    {RowsOf(n) : n \in ResultSizes}
        \cup { ResultSet(1, MAX_HORIZONTAL_COLS + 1, 0, 0, Null),
               ResultSet(2, 2, 2, 2, StrCell(<<"a", NL, "b">>)) }

\* what the terminal answers in a session
SessionTerminals == { NoTerminal, Terminal(TRUE, 2 * DefaultPageSize) }

\* `if not rows`: ob_admin_cli.py line 135, ob_gemini_v1.py line 209
IsEmpty(rs) == rs = <<>>

\* the step prints no rows
NoRender ==
    /\ layout' = "none"
    /\ cols' = 0
    /\ max_width' = 0
    /\ cleaned' = <<>>

Running == exitCode = -1

\* an exception no handler catches: the traceback names it, exit status 1,
\* nothing closed
Crash(exc) ==
    /\ pc' = "done"
    /\ exitCode' = 1
    /\ msg' = exc
    /\ execCall' = NoExec
    /\ NoRender

\* KeyboardInterrupt reaches the handler around main()
InterruptExit ==
    /\ pc' = "done"
    /\ exitCode' = 0
    /\ msg' = "interrupted"
    /\ NoRender

----------------------------------------------------------------------------
(* ob_admin_cli.py: paginate and save_csv *)

\* lines 142-143
PageStart(pg, ps) == pg * ps
PageEnd(pg, ps, total) == Min(PageStart(pg, ps) + ps, total)

PageRows_Short(rs, ps, pg) ==
    Slice(rs, PageStart(pg, ps), PageEnd(pg, ps, Len(rs)) - 1)

\* line 145: rows[start:end]
PageRows(rs, ps, pg) == Slice(rs, PageStart(pg, ps), PageEnd(pg, ps, Len(rs)))

ToPause_Fatal(call) ==
    /\ pc' = "done"
    /\ msg' = "exec_failed"
    /\ execCall' = call
    /\ exitCode' = 1
    /\ NoRender
    /\ UNCHANGED <<rows, page, shown, exportArg, page_size>>

\* paginate is left by an exception that main reports (lines 395-397)
ToPause(call) ==
    /\ pc' = "pause"
    /\ msg' = "exec_failed"
    /\ execCall' = call
    /\ rows' = <<>>
    /\ page' = 0
    /\ shown' = <<>>
    /\ exportArg' = <<>>
    /\ NoRender
    /\ UNCHANGED <<page_size, exitCode>>

BackToMenu_Stay(note, call) ==
    /\ pc' = "viewing"
    /\ msg' = note
    /\ execCall' = call
    /\ UNCHANGED <<sql, lines, rows, page, shown, exportArg, page_size, exitCode,
                   layout, cols, max_width, cleaned>>

\* control is back at the menu prompt of line 340
BackToMenu(note, call) ==
    /\ pc' = "menu"
    /\ msg' = note
    /\ execCall' = call
    /\ sql' = <<>>
    /\ lines' = <<>>
    /\ rows' = <<>>
    /\ page' = 0
    /\ shown' = <<>>
    /\ exportArg' = <<>>
    /\ NoRender
    /\ UNCHANGED <<page_size, exitCode>>

\* the max_width argument of print_table: None, or a width
NoMaxWidth == [given |-> FALSE, value |-> 0]
MaxWidthArg(w) == [given |-> TRUE, value |-> w]

\* print_table, lines 65-113: every cell goes through clean() and the grid is
\* printed; terms are the answers the terminal may give
PrintTable(rs, arg, terms) ==
    IF IsEmpty(rs) THEN NoRender
    ELSE \E t \in terms :
            /\ layout' = "Horizontal"
            /\ cols' = IF arg.given THEN 0 ELSE TerminalColumns("admin", t)
            /\ max_width' = IF arg.given THEN arg.value
                            ELSE AdaptiveCellWidth(HeaderCount(rs), TerminalColumns("admin", t))
            /\ cleaned' = Clean(LastCell(rs), max_width')

\* lines 141-147: render page pg of result set rs and wait for a command;
\* a failure while printing propagates to main's handler
Render(rs, ps, pg, note, call) ==
    \E printed \in BOOLEAN :
        IF printed
        THEN /\ pc' = "viewing"
             /\ rows' = rs
             /\ page_size' = ps
             /\ page' = pg
             /\ shown' = PageRows(rs, ps, pg)
             /\ PrintTable(PageRows(rs, ps, pg), NoMaxWidth, SessionTerminals)
             /\ msg' = note
             /\ execCall' = call
             /\ exportArg' = <<>>
             /\ UNCHANGED exitCode
        ELSE ToPause(call)

AtLastPage_OffByOne == PageEnd(page, page_size, Len(rows)) > Len(rows)

\* line 149: `n` on the last page
AtLastPage == PageEnd(page, page_size, Len(rows)) >= Len(rows)

\* line 154: `p` on the first page
AtFirstPage == page = 0

ExportInput_Page == shown

\* line 159: what the export command hands to save_csv
ExportInput == rows

PageCmds == {"n", "N", "p", "s", "q", "x", ""}

\* lines 147-163: one command read by paginate
APaginate(cmd) ==
    /\ pc = "viewing"
    /\ LET c == LowerTok(cmd) IN
        CASE c = "n" ->
                /\ IF AtLastPage
                   THEN Render(rows, page_size, page, "last_page", NoExec)
                   ELSE Render(rows, page_size, page + 1, "page", NoExec)
                /\ UNCHANGED <<sql, lines>>
          [] c = "p" ->
                /\ IF AtFirstPage
                   THEN Render(rows, page_size, page, "first_page", NoExec)
                   ELSE Render(rows, page_size, page - 1, "page", NoExec)
                /\ UNCHANGED <<sql, lines>>
          [] c = "s" ->
                /\ exportArg' = ExportInput
                /\ pc' = "save_name"
                /\ msg' = "save_prompt"
                /\ execCall' = NoExec
                /\ UNCHANGED <<sql, lines, rows, page_size, page, shown, exitCode,
                               layout, cols, max_width, cleaned>>
          [] c = "q" ->
                BackToMenu("none", NoExec)
          [] OTHER ->
                /\ Render(rows, page_size, page, "invalid_cmd", NoExec)
                /\ UNCHANGED <<sql, lines>>
    /\ UNCHANGED <<prog, conn, closeCalls, cfg, queries, queries_menu, sorted_keys, item>>

\* save_csv lines 119-131 after the file name is read: the write succeeds or
\* fails, then paginate renders the same page again
ASaveCsv(written) ==
    /\ pc = "save_name"
    /\ Render(rows, page_size, page, IF written THEN "saved" ELSE "save_failed", NoExec)
    /\ UNCHANGED <<prog, conn, closeCalls, cfg, queries, queries_menu, sorted_keys, item,
                   sql, lines>>

----------------------------------------------------------------------------
(* ob_admin_cli.py: main *)

Paginate_NoGuard(rs, ps, call, stmt, lns) ==
    /\ Render(rs, ps, 0, "page", call)
    /\ sql' = stmt
    /\ lines' = lns

\* paginate, lines 134-146, up to its first prompt; stmt and lns are main's
\* sql and lines
Paginate(rs, ps, call, stmt, lns) ==
    IF IsEmpty(rs)
    THEN BackToMenu("no_results", call)
    ELSE /\ Render(rs, ps, 0, "page", call)
         /\ sql' = stmt
         /\ lines' = lns

\* lines 391-397: run_query then paginate, inside try/except Exception;
\* lns are the custom lines the statement was read from
RunQuery(stmt, conf, lns) ==
    \E outcome \in {"error", "rows", "interrupt"} :
        CASE outcome = "error" ->
                /\ ToPause(ExecCall(stmt, conf))
                /\ sql' = stmt
                /\ lines' = lns
          [] outcome = "interrupt" ->
                /\ InterruptExit
                /\ execCall' = ExecCall(stmt, conf)
                /\ sql' = stmt
                /\ lines' = lns
                /\ UNCHANGED <<rows, page_size, page, shown, exportArg>>
          [] OTHER ->
                \E rs \in SessionResults :
                    Paginate(rs, DefaultPageSize, ExecCall(stmt, conf), stmt, lns)

\* lines 383-389, first half: ask for confirmation or run at once
Gate(stmt, lns) ==
    IF IsDangerous(stmt)
    THEN /\ pc' = "confirm"
         /\ sql' = stmt
         /\ lines' = lns
         /\ msg' = "confirm_prompt"
         /\ execCall' = NoExec
         /\ NoRender
         /\ UNCHANGED <<rows, page_size, page, shown, exportArg, exitCode>>
    ELSE RunQuery(stmt, FALSE, lns)

\* lines 316-326 and the prompt of line 329
AConnect(ok) ==
    /\ prog = "admin"
    /\ pc = "start"
    /\ IF ok
       THEN /\ conn' = "open"
            /\ pc' = "menu_path"
            /\ msg' = "connected"
            /\ exitCode' = exitCode
       ELSE /\ conn' = conn
            /\ pc' = "done"
            /\ msg' = "connect_failed"
            /\ exitCode' = 2
    /\ UNCHANGED <<prog, closeCalls, cfg, queries, queries_menu, sorted_keys, item, sql,
                   lines, execCall, rows, page_size, page, shown, exportArg,
                   layout, cols, max_width, cleaned>>

\* line 330: load_menu_from_json(...) or builtin_queries(...)
InitialMenu(c) ==
    LET r == LoadMenuFromJson(c, Database)
    IN  IF r.status = "ok" THEN r.qs ELSE BuiltinQueries(Database)

\* lines 329-330 after the path is read
AMenuPath ==
    /\ pc = "menu_path"
    /\ IF LoadMenuFromJson(cfg, Database).status = "raise"
       THEN Crash("AttributeError") /\ UNCHANGED queries
       ELSE /\ queries' = InitialMenu(cfg)
            /\ pc' = "menu"
            /\ msg' = "none"
            /\ NoRender
            /\ UNCHANGED <<exitCode, execCall>>
    /\ UNCHANGED <<prog, conn, closeCalls, cfg, queries_menu, sorted_keys, item, sql,
                   lines, rows, page_size, page, shown, exportArg>>

Reloaded_Fallback(r, old) ==
    IF r.status = "ok" THEN r.qs ELSE BuiltinQueries(Database)

\* lines 352-357: the snapshot after a reload whose load returned r
Reloaded(r, old) == IF r.status = "ok" THEN r.qs ELSE old

IsInt(c) == c \in {"0", "1", "2", "3", "4", "12", "13"}

\* int(choice)
IntOf(c) ==
    CASE c = "0" -> 0 [] c = "1" -> 1 [] c = "2" -> 2 [] c = "3" -> 3
      [] c = "4" -> 4 [] c = "12" -> 12 [] c = "13" -> 13

AdminChoices == {"0", "r", "R", "1", "2", "3", "12", "13", "x"}

\* lines 361-366: is the choice the number of a menu entry
ValidIndex(choice, qs) ==
    /\ IsInt(choice)
    /\ ~(IntOf(choice) - 1 < 0 \/ IntOf(choice) - 1 >= Len(qs))

\* lines 340-397: one menu choice
AChoose(ch) ==
    /\ pc = "menu"
    /\ LET choice == LowerTok(ch) IN
        CASE choice = "0" ->
                /\ conn' = "closed"
                /\ closeCalls' = closeCalls + 1
                /\ pc' = "done"
                /\ exitCode' = 0
                /\ msg' = "bye"
                /\ execCall' = NoExec
                /\ NoRender
                /\ UNCHANGED <<queries, sql, lines, rows, page_size, page, shown, exportArg>>
          [] choice = "r" ->
                /\ IF LoadMenuFromJson(cfg, Database).status = "raise"
                   THEN Crash("AttributeError") /\ UNCHANGED queries
                   ELSE /\ queries' = Reloaded(LoadMenuFromJson(cfg, Database), queries)
                        /\ msg' = IF LoadMenuFromJson(cfg, Database).status = "ok"
                                  THEN "reloaded" ELSE "reload_kept"
                        /\ pc' = "menu"
                        /\ execCall' = NoExec
                        /\ exitCode' = exitCode
                        /\ NoRender
                /\ UNCHANGED <<conn, closeCalls, sql, lines, rows, page_size, page, shown,
                               exportArg>>
          [] OTHER ->
                /\ UNCHANGED <<conn, closeCalls, queries>>
                /\ IF ~ValidIndex(choice, queries)
                   THEN BackToMenu("invalid_choice", NoExec)
                   ELSE IF queries[IntOf(choice)].sql = CUSTOM
                   THEN /\ pc' = "custom"
                        /\ lines' = <<>>
                        /\ sql' = CUSTOM
                        /\ msg' = "custom_prompt"
                        /\ execCall' = NoExec
                        /\ NoRender
                        /\ UNCHANGED <<exitCode, rows, page_size, page, shown, exportArg>>
                   ELSE Gate(queries[IntOf(choice)].sql, lines)
    /\ UNCHANGED <<prog, cfg, queries_menu, sorted_keys, item>>

\* lines typed at the custom prompt
CustomLines ==
    { <<>>, <<SP>>,
      <<"select", SP, "1">>,
      <<"DROP", SP, "t", ";", SP>>,
      <<"delete">>,
      <<"from", SP, "t", ";">>,
      <<TAB, "kill", "(", "1", ")">> }

\* lines 374-378: does reading stop after this line
EndsInput(line) ==
    \/ Strip(line) = <<>>
    \/ Strip(line)[Len(Strip(line))] = ";"

\* lines 374-376: the lines kept once this one is read
Collected(lns, line) == IF Strip(line) = <<>> THEN lns ELSE Append(lns, line)

\* line 379
Statement(lns) == Strip(Join(lns, NL))

\* lines 372-397: one line read at the custom prompt
ACustomLine(line) ==
    /\ pc = "custom"
    /\ ~EndsInput(line) => Len(lines) + 1 < MaxLines
    /\ IF ~EndsInput(line)
       THEN /\ pc' = "custom"
            /\ lines' = Collected(lines, line)
            /\ msg' = "none"
            /\ execCall' = NoExec
            /\ NoRender
            /\ UNCHANGED <<sql, rows, page_size, page, shown, exportArg, exitCode>>
       ELSE IF Statement(Collected(lines, line)) = <<>>
       THEN BackToMenu("no_sql", NoExec)
       ELSE Gate(Statement(Collected(lines, line)), Collected(lines, line))
    /\ UNCHANGED <<prog, conn, closeCalls, cfg, queries, queries_menu, sorted_keys, item>>

\* answers typed at the confirmation prompt
Answers == { <<>>, <<"yes">>, <<SP, "YES", SP>>, <<"no">>, <<"y">> }

Affirmative_Prefix(ans) == Lower(Strip(ans)) \in {<<"yes">>, <<"y">>}

\* lines 387-388: ok == "yes" after strip().lower()
Affirmative(ans) == Lower(Strip(ans)) = <<"yes">>

\* lines 387-397: the answer to the confirmation prompt
AConfirm(ans) ==
    /\ pc = "confirm"
    /\ IF ~Affirmative(ans)
       THEN BackToMenu("cancelled", NoExec)
       ELSE RunQuery(sql, TRUE, lines)
    /\ UNCHANGED <<prog, conn, closeCalls, cfg, queries, queries_menu, sorted_keys, item>>

\* pause(), lines 38-42, reached from line 397: Enter or end of input
APause ==
    /\ pc = "pause"
    /\ BackToMenu("none", NoExec)
    /\ UNCHANGED <<prog, conn, closeCalls, cfg, queries, queries_menu, sorted_keys, item>>

----------------------------------------------------------------------------
(* ob_gemini_v1.py *)

\* load_queries, lines 12-29: the parsed document, or {} on any failure
LoadQueries(c) ==
    IF c.kind \in {"absent", "unreadable", "badjson"}
    THEN [shape |-> "dict", items |-> <<>>]
    ELSE [shape |-> c.kind, items |-> c.items]

EmptyMenu == [shape |-> "dict", items |-> <<>>]

KeyIsInt(k) == k \in {"1", "2", "5", "10"}

\* int(key)
KeyInt(k) == CASE k = "1" -> 1 [] k = "2" -> 2 [] k = "5" -> 5 [] k = "10" -> 10

\* position of a key in the lexical order of strings
LexRank(k) ==
    CASE k = "1" -> 1 [] k = "10" -> 2 [] k = "2" -> 3 [] k = "5" -> 4
      [] k = "A" -> 5 [] k = "B" -> 6 [] k = "C" -> 7 [] k = "Q" -> 8
      [] k = "R" -> 9 [] k = "X" -> 10 [] k = "a" -> 11 [] k = "c" -> 12

KeysOf(m) == [i \in DOMAIN m.items |-> m.items[i].key]

\* lines 269-273: numeric order when every key is an integer, else lexical
SortedKeys(m) ==
    IF \A i \in DOMAIN m.items : KeyIsInt(m.items[i].key)
    THEN SortSeq(KeysOf(m), LAMBDA a, b : KeyInt(a) < KeyInt(b))
    ELSE SortSeq(KeysOf(m), LAMBDA a, b : LexRank(a) < LexRank(b))

\* the text of a key: what is typed to name it
KeyText(k) == <<k>>

\* `choice in queries_menu`
InMenu(m, choice) == \E i \in DOMAIN m.items : KeyText(m.items[i].key) = choice

\* queries_menu[choice]
Lookup(m, choice) ==
    m.items[CHOOSE i \in DOMAIN m.items : KeyText(m.items[i].key) = choice]

\* lines 329-337 up to the first pass of the menu loop
GConnect(ok) ==
    /\ prog = "gemini"
    /\ pc = "start"
    /\ IF ok
       THEN /\ conn' = "open"
            /\ pc' = "g_top"
            /\ msg' = "connected"
            /\ exitCode' = exitCode
       ELSE /\ conn' = conn
            /\ pc' = "done"
            /\ msg' = "connect_failed"
            /\ exitCode' = 0
    /\ UNCHANGED <<prog, closeCalls, cfg, queries, queries_menu, sorted_keys, item, sql,
                   lines, execCall, rows, page_size, page, shown, exportArg,
                   layout, cols, max_width, cleaned>>

\* lines 278-280: the actions printed under every menu
FixedActions == <<"C", "R", "Q">>

\* lines 275-280: the keys the displayed menu offers
Listing == sorted_keys \o FixedActions

\* lines 259-282: load the configuration, list the menu, wait for a choice
GDisplay ==
    /\ pc = "g_top"
    /\ queries_menu' = LoadQueries(cfg)
    /\ IF LoadQueries(cfg).shape # "dict"
       THEN Crash("AttributeError") /\ UNCHANGED sorted_keys
       ELSE /\ sorted_keys' = SortedKeys(LoadQueries(cfg))
            /\ IF \E i \in DOMAIN LoadQueries(cfg).items : ~LoadQueries(cfg).items[i].obj
               THEN Crash("AttributeError")
               ELSE /\ pc' = "g_menu"
                    /\ msg' = IF LoadQueries(cfg).items = <<>> THEN "menu_empty" ELSE "menu"
                    /\ execCall' = NoExec
                    /\ exitCode' = exitCode
                    /\ NoRender
    /\ UNCHANGED <<prog, conn, closeCalls, cfg, queries, item, sql, lines, rows,
                   page_size, page, shown, exportArg>>

\* print_vertical, lines 118-135: raw values, no widths
PrintVertical(rs) ==
    /\ layout' = "Vertical"
    /\ msg' = "rows"
    /\ cols' = 0
    /\ max_width' = 0
    /\ cleaned' = <<>>

\* print_horizontal, lines 137-188: the grid; when the table printer raises,
\* the failure is reported and the same rows are printed by print_vertical
PrintHorizontal(rs, terms) ==
    \E t \in terms : \E rendered \in BOOLEAN :
        /\ layout' = "Horizontal"
        /\ msg' = IF rendered THEN "rows" ELSE "render_fallback"
        /\ cols' = TerminalColumns("gemini", t)
        /\ max_width' = MaxColWidth(HeaderCount(rs), TerminalColumns("gemini", t))
        /\ cleaned' = CleanedItem(LastCell(rs))

\* lines 205-236: what is printed for the rows a statement returned
PrintResults(rs, terms) ==
    IF IsEmpty(rs)
    THEN msg' = "no_results" /\ NoRender
    ELSE IF LayoutDecision(rs) = "Vertical"
    THEN PrintVertical(rs)
    ELSE PrintHorizontal(rs, terms)

\* a step that stays in the menu loop and prints no rows
GNote(note) ==
    /\ pc' = "g_top"
    /\ msg' = note
    /\ exitCode' = exitCode
    /\ NoRender

\* execute_and_print_query, lines 190-249
GExecute(stmt) ==
    IF stmt = <<>> \/ Strip(stmt) = <<>>
    THEN GNote("sql_empty") /\ execCall' = NoExec
    ELSE /\ execCall' = ExecCall(stmt, FALSE)
         /\ \E outcome \in {"error", "rows", "affected", "interrupt"} :
               CASE outcome = "interrupt" -> InterruptExit
                 [] outcome = "error" -> GNote("exec_failed")
                 [] outcome = "affected" -> GNote("affected")
                 [] OTHER ->
                       /\ pc' = "g_top"
                       /\ exitCode' = exitCode
                       /\ \E rs \in SessionResults : PrintResults(rs, SessionTerminals)

\* texts typed at the menu prompt
GeminiChoices ==
    { <<>>, <<"q">>, <<"Q">>, <<SP, "q", TAB>>, <<"r">>, <<"R", SP>>, <<"c">>,
      <<"C">>, <<SP, "c">>, <<"1">>, <<SP, "1", SP>>, <<"2">>, <<"5">>, <<"a">>,
      <<"A">>, <<"a", SP>>, <<"b">>, <<"B">>, <<"X">>, <<"zz">> }

\* line 282 without the upper-casing
Choice_NoUpper(typed) == Strip(typed)

\* line 282: input(...).strip().upper()
Choice(typed) == Upper(Strip(typed))

\* lines 282-327: one menu choice
GChoose(ch) ==
    /\ pc = "g_menu"
    /\ LET choice == Choice(ch) IN
        CASE choice = <<"Q">> ->
                /\ conn' = "closed"
                /\ closeCalls' = closeCalls + 1
                /\ pc' = "done"
                /\ exitCode' = 0
                /\ msg' = "bye"
                /\ execCall' = NoExec
                /\ NoRender
                /\ UNCHANGED item
          [] choice = <<"R">> ->
                /\ GNote("refreshed")
                /\ execCall' = NoExec
                /\ UNCHANGED <<conn, closeCalls, item>>
          [] choice = <<"C">> ->
                /\ pc' = "g_custom"
                /\ msg' = "custom_prompt"
                /\ execCall' = NoExec
                /\ NoRender
                /\ UNCHANGED <<conn, closeCalls, exitCode, item>>
          [] OTHER ->
                /\ UNCHANGED <<conn, closeCalls>>
                /\ IF ~InMenu(queries_menu, choice)
                   THEN /\ GNote("invalid_choice")
                        /\ execCall' = NoExec
                        /\ UNCHANGED item
                   ELSE /\ item' = Lookup(queries_menu, choice)
                        /\ LET it == Lookup(queries_menu, choice) IN
                            CASE it.type = "simple" ->
                                    IF ~it.hasSql
                                    THEN GNote("incomplete") /\ execCall' = NoExec
                                    ELSE GExecute(it.sql)
                              [] it.type = "parameter_query" ->
                                    /\ pc' = "g_param"
                                    /\ msg' = "param_prompt"
                                    /\ execCall' = NoExec
                                    /\ NoRender
                                    /\ UNCHANGED exitCode
                              [] OTHER ->
                                    GNote("unknown_type") /\ execCall' = NoExec
    /\ UNCHANGED <<prog, cfg, queries, queries_menu, sorted_keys, sql, lines, rows,
                   page_size, page, shown, exportArg>>

\* statements typed at the single-line custom prompt
GeminiStatements == { <<>>, <<SP>>, SelectT, DropT, DeleteFromT }

\* lines 296-297
GCustom(stmt) ==
    /\ pc = "g_custom"
    /\ GExecute(stmt)
    /\ UNCHANGED <<prog, conn, closeCalls, cfg, queries, queries_menu, sorted_keys, item,
                   sql, lines, rows, page_size, page, shown, exportArg>>

\* values typed at the parameter prompt
GeminiParams == { <<>>, <<"x">>, <<"1", ";", SP, "drop", SP, "table", SP, "t">> }

\* lines 311-316
GParam(q) ==
    /\ pc = "g_param"
    /\ GExecute(Replace(item.sql, "{query}", IF q = <<>> THEN <<"%">> ELSE q))
    /\ UNCHANGED <<prog, conn, closeCalls, cfg, queries, queries_menu, sorted_keys, item,
                   sql, lines, rows, page_size, page, shown, exportArg>>

----------------------------------------------------------------------------
(* Events of the environment *)

\* Ctrl+C: ob_admin_cli.py lines 400-404, ob_gemini_v1.py lines 339-344
AInterrupt ==
    /\ Running
    /\ pc # "done"
    /\ InterruptExit
    /\ execCall' = NoExec
    /\ UNCHANGED <<prog, conn, closeCalls, cfg, queries, queries_menu, sorted_keys, item,
                   sql, lines, rows, page_size, page, shown, exportArg>>

\* positions that block in input() without a handler for EOFError
InputPositions ==
    {"start", "menu_path", "menu", "custom", "confirm", "viewing", "save_name",
     "g_menu", "g_custom", "g_param"}

\* end of input at one of them: EOFError is caught nowhere but in pause()
AEndOfInput ==
    /\ pc \in InputPositions
    /\ Crash("EOFError")
    /\ UNCHANGED <<prog, conn, closeCalls, cfg, queries, queries_menu, sorted_keys, item,
                   sql, lines, rows, page_size, page, shown, exportArg>>

\* positions from which the next thing the program does may be to read the
\* configuration file
ReadsConfigNext == {"menu_path", "menu", "g_top"}

\* the configuration file is edited, removed or replaced while the tool runs;
\* a change that happens elsewhere is seen by the program as one that
\* happens just before the next read
EnvConfig ==
    /\ Running
    /\ pc \in ReadsConfigNext
    /\ cfg' \in Configs(prog) \ {cfg}
    /\ UNCHANGED <<prog, pc, conn, closeCalls, exitCode, queries, queries_menu,
                   sorted_keys, item, sql, lines, execCall, msg, rows, page_size,
                   page, shown, exportArg, layout, cols, max_width, cleaned>>

----------------------------------------------------------------------------
(* Specifications *)

Init ==
    /\ prog \in {"admin", "gemini"}
    /\ pc = "start"
    /\ conn = "none"
    /\ closeCalls = 0
    /\ exitCode = -1
    /\ cfg \in Configs(prog)
    /\ queries = <<>>
    /\ queries_menu = EmptyMenu
    /\ sorted_keys = <<>>
    /\ item = NoItem
    /\ sql = <<>>
    /\ lines = <<>>
    /\ execCall = NoExec
    /\ msg = "none"
    /\ rows = <<>>
    /\ page_size = DefaultPageSize
    /\ page = 0
    /\ shown = <<>>
    /\ exportArg = <<>>
    /\ layout = "none"
    /\ cols = 0
    /\ max_width = 0
    /\ cleaned = <<>>

Next ==
    \/ \E ok \in BOOLEAN : AConnect(ok)
    \/ AMenuPath
    \/ \E ch \in AdminChoices : AChoose(ch)
    \/ \E line \in CustomLines : ACustomLine(line)
    \/ \E ans \in Answers : AConfirm(ans)
    \/ \E cmd \in PageCmds : APaginate(cmd)
    \/ \E written \in BOOLEAN : ASaveCsv(written)
    \/ APause
    \/ \E ok \in BOOLEAN : GConnect(ok)
    \/ GDisplay
    \/ \E ch \in GeminiChoices : GChoose(ch)
    \/ \E stmt \in GeminiStatements : GCustom(stmt)
    \/ \E q \in GeminiParams : GParam(q)
    \/ AInterrupt
    \/ AEndOfInput
    \/ EnvConfig

Spec == Init /\ [][Next]_vars

\* paginate called on its own with any non-empty result set and page size
InitPaginate ==
    /\ prog = "admin"
    /\ pc = "viewing"
    /\ conn = "open"
    /\ closeCalls = 0
    /\ exitCode = -1
    /\ cfg = Config("absent", <<>>)
    /\ queries = BuiltinQueries(Database)
    /\ queries_menu = EmptyMenu
    /\ sorted_keys = <<>>
    /\ item = NoItem
    /\ sql = SelectT
    /\ lines = <<>>
    /\ execCall = ExecCall(SelectT, FALSE)
    /\ msg = "page"
    /\ rows \in {RowsOf(n) : n \in 1..MaxRows}
    /\ page_size \in 1..MaxPageSize
    /\ page = 0
    /\ shown = PageRows(rows, page_size, 0)
    /\ layout = "Horizontal"
    /\ cols \in {TerminalColumns("admin", t) : t \in SessionTerminals}
    /\ max_width = AdaptiveCellWidth(HeaderCount(rows), cols)
    /\ cleaned = IF IsEmpty(shown) THEN <<>> ELSE Clean(LastCell(shown), max_width)
    /\ exportArg = <<>>

NextPaginate ==
    \/ \E cmd \in PageCmds : APaginate(cmd)
    \/ \E written \in BOOLEAN : ASaveCsv(written)

SpecPaginate == InitPaginate /\ [][NextPaginate]_vars

\* the values a cell takes when the layout decision is exercised
CellSamples ==
    { StrCell(<<"a">>), StrCell(<<"a", NL, "b">>), StrCell(<<NL>>),
      StrCell(<<"a", CR, TAB, "b">>), Cell("bytes", <<"a", NL>>),
      Cell("int", <<"7">>), Null }

\* result sets of up to MaxResultRows rows and MaxCols columns with one cell
\* taken from CellSamples
LayoutResults ==
    { ResultSet(nr, nc, r, c, sp) :
        nr \in 1..MaxResultRows, nc \in 1..MaxCols,
        r \in 1..MaxResultRows, c \in 1..MaxCols, sp \in CellSamples }

\* the state in which a printer's function is called on its own
Standalone(p, at, rs) ==
    /\ prog = p
    /\ pc = at
    /\ conn = "open"
    /\ closeCalls = 0
    /\ exitCode = -1
    /\ cfg = Config("absent", <<>>)
    /\ queries = <<>>
    /\ queries_menu = EmptyMenu
    /\ sorted_keys = <<>>
    /\ item = NoItem
    /\ sql = SelectT
    /\ lines = <<>>
    /\ execCall = ExecCall(SelectT, FALSE)
    /\ msg = "none"
    /\ rows = rs
    /\ page_size = DefaultPageSize
    /\ page = 0
    /\ shown = <<>>
    /\ exportArg = <<>>
    /\ layout = "none"
    /\ cols = 0
    /\ max_width = 0
    /\ cleaned = <<>>

Frame ==
    UNCHANGED <<prog, conn, closeCalls, exitCode, cfg, queries, queries_menu, sorted_keys,
                item, sql, lines, execCall, rows, page_size, page, shown, exportArg>>

\* ob_gemini_v1.py lines 209-236 applied to the rows a statement returned
GPrintResults ==
    /\ pc = "results"
    /\ pc' = "printed"
    /\ PrintResults(rows, SessionTerminals)
    /\ Frame

InitLayout == \E rs \in LayoutResults : Standalone("gemini", "results", rs)

NextLayout == GPrintResults

SpecLayout == InitLayout /\ [][NextLayout]_vars

\* every answer of the terminal up to MaxTermWidth columns
AllTerminals == {NoTerminal} \cup {Terminal(TRUE, c) : c \in 0..MaxTermWidth}

\* print_table called with no max_width on a one-row result set
APrintTable ==
    /\ prog = "admin"
    /\ pc = "width"
    /\ pc' = "printed"
    /\ PrintTable(rows, NoMaxWidth, AllTerminals)
    /\ msg' = "rows"
    /\ Frame

\* print_horizontal called on a one-row result set
GPrintHorizontal ==
    /\ prog = "gemini"
    /\ pc = "width"
    /\ pc' = "printed"
    /\ PrintHorizontal(rows, AllTerminals)
    /\ Frame

InitWidth ==
    \E p \in {"admin", "gemini"} : \E n \in 1..MaxCols :
        Standalone(p, "width", ResultSet(1, n, 0, 0, Null))

NextWidth == APrintTable \/ GPrintHorizontal

SpecWidth == InitWidth /\ [][NextWidth]_vars

\* the characters of the cell texts clean() is exercised on
Alphabet == {"a", SP, NL, CR, TAB, FF, SUR}

\* all texts over Alphabet of length n
RECURSIVE TextsOfLen(_)
TextsOfLen(n) ==
    IF n = 0 THEN {<<>>}
    ELSE {<<c>> \o t : c \in Alphabet, t \in TextsOfLen(n - 1)}

\* the cell values clean() is exercised on: None, every str of up to
\* MaxCellLen characters, some bytes and int values
CellValues ==
    {Null}
        \cup {StrCell(t) : t \in UNION {TextsOfLen(n) : n \in 0..MaxCellLen}}
        \cup {Cell("bytes", <<"a", NL, SP, SP>>), Cell("bytes", <<>>),
              Cell("int", <<"7">>), Cell("int", DigitsOf(123456))}

\* print_table called with a max_width of 1..MaxWidth on one cell
APrintTableWidth ==
    /\ pc = "clean"
    /\ pc' = "printed"
    /\ \E w \in 1..MaxWidth : PrintTable(rows, MaxWidthArg(w), {NoTerminal})
    /\ msg' = "rows"
    /\ Frame

InitClean == \E val \in CellValues : Standalone("admin", "clean", <<<<val>>>>)

NextClean == APrintTableWidth

SpecClean == InitClean /\ [][NextClean]_vars

----------------------------------------------------------------------------
(* Properties *)

Range(f) == {f[i] : i \in DOMAIN f}

\* a destructive keyword stands in s as a whole word, in any letter case,
\* whatever delimits it
HasDangerWord(s) ==
    \E i \in DOMAIN s :
        /\ LowerTok(s[i]) \in {"drop", "truncate", "delete", "alter", "shutdown", "kill"}
        /\ i = 1 \/ s[i - 1] \in Delims
        /\ i = Len(s) \/ s[i + 1] \in Delims

\* C1: every statement handed to execute that contains a destructive keyword
\* as a whole word was confirmed by the user beforehand.
C1_DangerousNeedsConfirmation ==
    (execCall.called /\ HasDangerWord(execCall.stmt)) => execCall.confirmed

\* the answers that read "yes" once trimmed and lower-cased
SaysYes(ans) == ans \in { <<"yes">>, <<SP, "YES", SP>> }

\* C2: a response to the confirmation prompt other than yes executes nothing,
\* reports the cancellation and returns to the menu with the same snapshot
\* and the connection open.
C2_DenialCancels ==
    [][\A ans \in Answers :
          (~SaysYes(ans) /\ AConfirm(ans)) =>
              /\ ~execCall'.called
              /\ msg' = "cancelled"
              /\ pc' = "menu"
              /\ queries' = queries
              /\ conn = "open" /\ conn' = "open"
              /\ exitCode' = -1]_vars

C2_Witness == pc = "menu" /\ msg = "cancelled" /\ conn = "open"

IsNext(cmd) == cmd \in {"n", "N"}
IsPrevious(cmd) == cmd \in {"p"}
IsExport(cmd) == cmd \in {"s"}
IsQuit(cmd) == cmd \in {"q"}

\* C3: while a result set is viewed the page start lies in 0 .. total-1 and
\* is a multiple of the page size; next advances exactly when
\* (page+1)*pageSize < total, previous retreats exactly when page > 0, and
\* otherwise the page stays.
C3_PaginationBounds ==
    /\ [](pc \in {"viewing", "save_name"} =>
            /\ rows # <<>> /\ page_size >= 1
            /\ 0 <= page * page_size /\ page * page_size < Len(rows)
            /\ (page * page_size) % page_size = 0)
    /\ [][\A cmd \in PageCmds :
            (APaginate(cmd) /\ pc' = "viewing") =>
                /\ IsNext(cmd) =>
                      page' = IF (page + 1) * page_size < Len(rows) THEN page + 1 ELSE page
                /\ IsPrevious(cmd) =>
                      page' = IF page > 0 THEN page - 1 ELSE page
                /\ ~IsNext(cmd) /\ ~IsPrevious(cmd) => page' = page]_vars

C3_Witness == pc = "viewing" /\ page >= 2 /\ msg = "last_page"

\* ceil(total / ps)
NumPages(total, ps) == (total + ps - 1) \div ps

\* C4: the pages visited are pages 0 .. ceil(total/P)-1, next reaches each of
\* them in turn, page k shows rows k*P .. min((k+1)*P, total)-1, and every
\* page has P rows but the last, which has total mod P (P when that is 0).
C4_PagesAndSizes ==
    /\ [](pc = "viewing" =>
            LET total == Len(rows)
                last == NumPages(total, page_size) - 1
                lo == page * page_size
                hi == IF (page + 1) * page_size < total
                      THEN (page + 1) * page_size ELSE total
            IN  /\ page \in 0..last
                /\ shown = [i \in 1..(hi - lo) |-> rows[lo + i]]
                /\ page < last => Len(shown) = page_size
                /\ page = last =>
                      Len(shown) = IF total % page_size = 0
                                   THEN page_size ELSE total % page_size)
    /\ [][\A cmd \in PageCmds :
            (APaginate(cmd) /\ IsNext(cmd) /\ pc' = "viewing"
             /\ page < NumPages(Len(rows), page_size) - 1) => page' = page + 1]_vars

C4_Witness ==
    /\ pc = "viewing"
    /\ NumPages(Len(rows), page_size) >= 3
    /\ page = NumPages(Len(rows), page_size) - 1
    /\ Len(rows) % page_size # 0
    /\ Len(shown) = Len(rows) % page_size

\* C5: export hands the whole result set to save_csv and changes neither the
\* page nor the result set, whether the write succeeds or fails; any other
\* unknown command is reported as invalid and changes nothing; in both cases
\* pagination goes on viewing (unless printing the page itself raises, the
\* error path of C7).
C5_ExportAndInvalidFrame ==
    [][/\ \A cmd \in PageCmds :
            (APaginate(cmd) /\ IsExport(cmd)) =>
                /\ exportArg' = rows
                /\ pc' = "save_name"
                /\ page' = page /\ rows' = rows
       /\ \A written \in BOOLEAN :
            (ASaveCsv(written) /\ msg' # "exec_failed") =>
                /\ pc' = "viewing"
                /\ msg' = IF written THEN "saved" ELSE "save_failed"
                /\ page' = page /\ rows' = rows /\ shown' = shown
       /\ \A cmd \in PageCmds :
            (APaginate(cmd) /\ msg' # "exec_failed"
             /\ ~IsNext(cmd) /\ ~IsPrevious(cmd) /\ ~IsExport(cmd) /\ ~IsQuit(cmd)) =>
                /\ pc' = "viewing"
                /\ msg' = "invalid_cmd"
                /\ page' = page /\ rows' = rows /\ shown' = shown]_vars

C5_Witness ==
    /\ pc = "save_name"
    /\ exportArg = rows
    /\ page >= 1
    /\ Len(shown) < Len(rows)

\* C6: when the process has ended after the connection was established, close
\* was called exactly once and the connection is closed.
C6_ClosedExactlyOnceAtExit ==
    (pc = "done" /\ conn # "none") => (closeCalls = 1 /\ conn = "closed")

\* C7: a step that reports an execution failure leaves the process running
\* with the connection open and the menu snapshot unchanged, at the pause
\* that precedes the menu (list form) or at the head of the menu loop (keyed
\* form); acknowledging the pause leads to the menu with the same snapshot.
C7_ExecFailureNotFatal ==
    [][/\ msg' = "exec_failed" =>
            /\ exitCode' = -1
            /\ conn' = "open"
            /\ queries' = queries /\ queries_menu' = queries_menu
            /\ pc' = IF prog = "admin" THEN "pause" ELSE "g_top"
       /\ (pc = "pause" /\ msg' # "interrupted") =>
            /\ pc' = "menu"
            /\ exitCode' = -1
            /\ conn' = "open"
            /\ queries' = queries]_vars

C7_Witness ==
    /\ pc = "pause" /\ msg = "exec_failed" /\ execCall.called
    /\ conn = "open" /\ exitCode = -1

\* C8: whatever the state of the configuration resource, loading it never
\* ends the process with an exception.
C8_ConfigNeverFatal == ~(pc = "done" /\ msg = "AttributeError")

\* C9: every displayed menu is non-empty and offers a custom entry.
C9_CustomAlwaysOffered ==
    /\ pc = "menu" =>
          /\ Len(queries) >= 1
          /\ \E i \in 1..Len(queries) : queries[i].sql = <<"__CUSTOM__">>
    /\ pc = "g_menu" => "C" \in Range(Listing)

C9_Witness ==
    /\ pc = "menu"
    /\ msg = "reloaded"
    /\ cfg.kind = "dict"
    /\ \A i \in DOMAIN cfg.items :
          ~(cfg.items[i].enabled /\ cfg.items[i].sql = <<"__CUSTOM__">>)
    /\ \E i \in 1..Len(queries) : queries[i].sql = <<"__CUSTOM__">>

Disabled(c) ==
    {i \in DOMAIN c.items : c.items[i].obj /\ ~c.items[i].enabled /\ c.items[i].sql # CUSTOM}

\* C11: no displayed menu lists an item whose configuration entry has
\* enabled = false, and no such item is dispatched: a load of the list form
\* leaves every disabled entry out of the snapshot, and the keyed form, which
\* re-reads the configuration at every display, neither lists the key of a
\* disabled entry nor executes its statement when that key is chosen.
C11_DisabledNotOffered ==
    /\ [][((AMenuPath \/ AChoose("r")) /\ pc' = "menu"
             /\ LoadMenuFromJson(cfg, Database).status = "ok") =>
               \A i \in Disabled(cfg) :
                   \A j \in DOMAIN queries' : queries'[j].title # cfg.items[i].title]_vars
    /\ [](pc = "g_menu" =>
            \A i \in Disabled(queries_menu) :
                queries_menu.items[i].key \notin Range(Listing))
    /\ [][\A ch \in GeminiChoices :
            (GChoose(ch) /\ \E i \in Disabled(queries_menu) :
                               KeyText(queries_menu.items[i].key) = Choice(ch)) =>
                ~execCall'.called]_vars

\* C12: the process ends with exit code 0 after a normal quit and after a
\* user interrupt, and with a non-zero exit code when the initial connection
\* cannot be established; after a failed initial connection no menu was
\* displayed and no statement was executed.
C12_ExitCodes ==
    /\ (pc = "done" /\ msg \in {"bye", "interrupted"}) => exitCode = 0
    /\ (pc = "done" /\ msg = "connect_failed") =>
          /\ exitCode # 0
          /\ exitCode # -1
          /\ ~execCall.called
          /\ queries = <<>> /\ sorted_keys = <<>>

\* the text form of the cell at row i, column j has a line feed in it
CellHasLineFeed(rs, i, j) == \E k \in DOMAIN Str(rs[i][j]) : Str(rs[i][j])[k] = "\n"

\* C13: for every non-empty result set the decision is Vertical when there
\* are more than 10 headers, whatever the cells hold; otherwise Vertical when
\* the text of some cell contains a line feed; otherwise Horizontal.  So
\* Horizontal is chosen exactly when there are at most 10 headers and no cell
\* contains a line feed.
C13_LayoutDecisionRule ==
    pc = "printed" =>
        LET n == Len(rows[1])
            lf == \E i \in DOMAIN rows : \E j \in DOMAIN rows[i] : CellHasLineFeed(rows, i, j)
        IN  /\ n > 10 => layout = "Vertical"
            /\ (n <= 10 /\ lf) => layout = "Vertical"
            /\ (n <= 10 /\ ~lf) => layout = "Horizontal"
            /\ layout = "Horizontal" <=> (n <= 10 /\ ~lf)

C13_Witness ==
    /\ pc = "printed"
    /\ Len(rows[1]) = 10
    /\ layout = "Vertical"
    /\ \E i \in DOMAIN rows : \E j \in DOMAIN rows[i] : CellHasLineFeed(rows, i, j)

\* C14: for every header count n >= 1 and every terminal width, also one
\* smaller than the border overhead or one that cannot be read, the width
\* allocated per column lies between the allocator's minimum and maximum
\* (24 and 80 in print_table, 10 and 40 in print_horizontal), and every
\* column gets that same width.
C14_ColumnWidthBounds ==
    pc = "printed" =>
        LET n == Len(rows[1])
            minWidth == IF prog = "admin" THEN 24 ELSE 10
            maxWidth == IF prog = "admin" THEN 80 ELSE 40
        IN  /\ n >= 1
            /\ minWidth <= maxWidth
            /\ minWidth <= max_width /\ max_width <= maxWidth
            /\ Len(ColumnWidths(prog, n, cols)) = n
            /\ \A i \in 1..n : ColumnWidths(prog, n, cols)[i] = max_width

C14_Witness ==
    /\ pc = "printed"
    /\ prog = "gemini"
    /\ cols - (3 * Len(rows[1]) + 1) < 0
    /\ max_width = 10

\* the sanitized text of a cell, before any length bound is applied
Sanitized(val) ==
    IF val.kind = "null" THEN <<>>
    ELSE EncodeFallback(Join(Split(ReplaceCtl(Str(val))), " "))

\* C15: when the sanitized text of a cell is longer than the maximum length L
\* the caller supplied, the result has length exactly L and is the first L-1
\* characters of the sanitized text followed by one ellipsis; when it is not
\* longer than L, the result is the sanitized text itself.
C15_TruncationLaw ==
    pc = "printed" =>
        LET x == rows[1][1]
            L == max_width
            full == Sanitized(x)
        IN  /\ Len(full) > L =>
                  /\ Len(cleaned) = L
                  /\ \A i \in 1..(L - 1) : cleaned[i] = full[i]
                  /\ cleaned[L] = ELLIPSIS
            /\ Len(full) <= L => cleaned = full

C15_Witness ==
    /\ pc = "printed"
    /\ max_width >= 2
    /\ Len(Sanitized(rows[1][1])) > max_width
    /\ Len(cleaned) = max_width
    /\ cleaned[max_width] = ELLIPSIS

\* C16: sanitizing the sanitizer's output again with the same length bound
\* returns it unchanged; the output holds no carriage return, line feed or
\* tab and no two consecutive whitespace characters; None gives the empty
\* string.
C16_SanitizerIdempotent ==
    pc = "printed" =>
        /\ Clean(StrCell(cleaned), max_width) = cleaned
        /\ \A i \in DOMAIN cleaned : cleaned[i] \notin {"\r", "\n", "\t"}
        /\ \A i \in 1..(Len(cleaned) - 1) :
              ~(cleaned[i] \in Whitespace /\ cleaned[i + 1] \in Whitespace)
        /\ rows[1][1].kind = "null" => cleaned = <<>>

C16_Witness ==
    /\ pc = "printed"
    /\ rows[1][1] = StrCell(<<"a", "\n", "\t", "a">>)
    /\ cleaned = <<"a", " ", "a">>

\* C17: quit is the only command that leaves the viewing of a result set;
\* from any page it ends pagination at once, and the next state is the menu
\* with the same snapshot and the connection open.  Next, previous and
\* invalid input lead back to viewing, and export leads back to viewing once
\* the file is written or the write has failed (unless printing the page
\* itself raises, the error path of C7).
C17_QuitLeavesViewing ==
    [][/\ \A cmd \in PageCmds :
            APaginate(cmd) =>
                /\ IsQuit(cmd) =>
                      /\ pc' = "menu"
                      /\ queries' = queries
                      /\ conn = "open" /\ conn' = "open"
                      /\ exitCode' = -1
                      /\ ~execCall'.called
                /\ (~IsQuit(cmd) /\ msg' # "exec_failed") =>
                      /\ pc' = IF IsExport(cmd) THEN "save_name" ELSE "viewing"
                      /\ rows' = rows
       /\ \A written \in BOOLEAN :
            (ASaveCsv(written) /\ msg' # "exec_failed") => pc' = "viewing" /\ rows' = rows
       /\ (pc \in {"viewing", "save_name"} /\ pc' = "menu") => APaginate("q")]_vars

C17_Witness ==
    /\ pc = "menu"
    /\ conn = "open"
    /\ queries = BuiltinQueries(Database)
    /\ rows = <<>>
    /\ exitCode = -1

\* C18: every page of a result set is rendered in the one layout that the
\* decision rule gives for the whole result set: Vertical when it has more
\* than 10 headers or a line feed in some cell, Horizontal otherwise; and the
\* layout does not change from one page to the next of the same result set.
C18_LayoutFixedPerResultSet ==
    /\ [](pc \in {"viewing", "save_name"} =>
            LET wide == Len(rows[1]) > 10
                lf == \E i \in DOMAIN rows : \E j \in DOMAIN rows[i] :
                          CellHasLineFeed(rows, i, j)
            IN  layout = IF wide \/ lf THEN "Vertical" ELSE "Horizontal")
    /\ [][(pc = "viewing" /\ pc' = "viewing" /\ rows' = rows) => layout' = layout]_vars

\* C19: when an executed statement yields zero rows, the no-results
\* indicator is printed and control returns to the menu: the Viewing state
\* is not entered, nothing is handed to a table printer, no column width is
\* computed and nothing is exported.  Conversely a result set is viewed,
\* printed or exported only when it has rows.
C19_EmptyResultShortCircuits ==
    /\ [][/\ msg' = "no_results" =>
                /\ execCall'.called
                /\ pc' = IF prog = "admin" THEN "menu" ELSE "g_top"
                /\ exitCode' = -1 /\ conn' = "open"
                /\ layout' = "none" /\ cols' = 0 /\ max_width' = 0 /\ cleaned' = <<>>
                /\ rows' = <<>> /\ shown' = <<>> /\ exportArg' = <<>>
          /\ (execCall'.called /\ pc' = "menu") => msg' = "no_results"
          /\ (execCall'.called /\ pc' = "g_top" /\ layout' = "none") =>
                msg' \in {"no_results", "affected", "exec_failed"}]_vars
    /\ [](pc \in {"viewing", "save_name"} => rows # <<>> /\ shown # <<>>)
    /\ [](pc = "save_name" => exportArg # <<>>)

C19_Witness ==
    /\ pc = "menu"
    /\ msg = "no_results"
    /\ execCall.called
    /\ layout = "none" /\ max_width = 0

\* a line of nothing but whitespace
BlankLine(line) == \A i \in DOMAIN line : line[i] \in {" ", "\t", "\n", "\r", "\f"}

\* the last character of the line that is not whitespace is a semicolon
SemicolonLine(line) ==
    \E i \in DOMAIN line :
        /\ line[i] = ";"
        /\ \A j \in (i + 1)..Len(line) : line[j] \in {" ", "\t", "\n", "\r", "\f"}

\* what the custom prompt must do with `line` when `read` are the lines read
\* before it, at the prompt position `at` of a menu loop whose menu is `menu`
CustomInputRule(read, line, at, menu) ==
    LET all == IF BlankLine(line) THEN read ELSE Append(read, line)
        stmt == Strip(Join(all, "\n"))
    IN  IF ~BlankLine(line) /\ ~SemicolonLine(line)
        THEN pc' = at /\ ~execCall'.called
        ELSE IF all = <<>>
        THEN pc' = menu /\ ~execCall'.called
        ELSE IF IsDangerous(stmt)
        THEN pc' = "confirm" /\ sql' = stmt /\ ~execCall'.called
        ELSE execCall' = ExecCall(stmt, FALSE)

\* C20: reading a free-form statement stops at the first blank line or at
\* the first line whose trimmed text ends in ';'; the statement is the lines
\* read before the blank line, or up to and including the ';' line, joined by
\* newlines (leading and trailing whitespace of the joined text aside); when
\* no non-blank line was entered nothing is executed and the session is back
\* at the menu; otherwise the statement goes through the dangerous-statement
\* gate before it is executed.  This is required of both custom prompts.
C20_CustomStatementInput ==
    [][/\ \A line \in CustomLines :
            ACustomLine(line) =>
                /\ CustomInputRule(lines, line, "custom", "menu")
                /\ (~BlankLine(line) /\ ~SemicolonLine(line)) => lines' = Append(lines, line)
       /\ \A stmt \in GeminiStatements :
            GCustom(stmt) => CustomInputRule(<<>>, stmt, "g_custom", "g_top")]_vars

\* a key that contains a lower-case letter
HasLowerCase(k) == k \in {"a", "b", "c", "q", "r", "x", "zz"}

\* the typed text is the key, white space around it aside
TypesKey(typed, k) == Strip(typed) = KeyText(k)

\* what a choice step reports when it dispatches no configured item
NoDispatchNotes == {"bye", "refreshed", "custom_prompt", "invalid_choice"}

\* the step dispatches a configured item
Dispatches == msg' \notin NoDispatchNotes

\* the step reports invalid input and executes nothing
RejectsChoice == msg' = "invalid_choice" /\ pc' = "g_top" /\ ~execCall'.called

\* the fixed actions are tested first on the trimmed, upper-cased text, and
\* an item is dispatched only under a key equal to that text
FixedActionsFirst(typed) ==
    LET choice == Upper(Strip(typed)) IN
        /\ choice = <<"Q">> => pc' = "done" /\ msg' = "bye" /\ exitCode' = 0
        /\ choice = <<"R">> => pc' = "g_top" /\ msg' = "refreshed"
        /\ choice = <<"C">> => pc' = "g_custom" /\ msg' = "custom_prompt"
        /\ choice \in {<<"Q">>, <<"R">>, <<"C">>} => ~execCall'.called
        /\ Dispatches =>
              \E i \in DOMAIN queries_menu.items :
                  /\ KeyText(queries_menu.items[i].key) = choice
                  /\ item' = queries_menu.items[i]

\* every item of the menu the choice is made in is listed
AllListed ==
    pc = "g_menu" =>
        \A i \in DOMAIN queries_menu.items :
            queries_menu.items[i].key \in Range(Listing)

\* C21 (as stated): the choice is trimmed and upper-cased before lookup and
\* the fixed actions are tested first, so Q quits, R reloads and C opens the
\* custom prompt even when an item has that key; an item is dispatched only
\* when its key equals the upper-cased input; an item whose key contains a
\* lower-case letter is listed, and every attempt to select it is reported
\* as invalid input and executes nothing.
C21_KeyedSelection ==
    /\ []AllListed
    /\ [][\A ch \in GeminiChoices :
            GChoose(ch) =>
                /\ FixedActionsFirst(ch)
                /\ \A i \in DOMAIN queries_menu.items :
                       (HasLowerCase(queries_menu.items[i].key)
                           /\ TypesKey(ch, queries_menu.items[i].key)) =>
                               RejectsChoice]_vars

\* C21 (amended): as above, but an item whose key contains a lower-case
\* letter is listed and never dispatched: typing its key does what the
\* upper-cased key does, the fixed action when that is Q, R or C, the
\* dispatch of the other item configured under the upper-cased key when
\* there is one, and otherwise it is reported as invalid input and executes
\* nothing.
C21_UpperCasedKeySelection ==
    /\ []AllListed
    /\ [][\A ch \in GeminiChoices :
            GChoose(ch) =>
                /\ FixedActionsFirst(ch)
                /\ \A i \in DOMAIN queries_menu.items :
                       LET k == queries_menu.items[i].key IN
                           HasLowerCase(k) =>
                               /\ Dispatches => item'.key # k
                               /\ (TypesKey(ch, k)
                                     /\ Upper(KeyText(k)) \notin {<<"Q">>, <<"R">>, <<"C">>}
                                     /\ ~InMenu(queries_menu, Upper(KeyText(k)))) =>
                                         RejectsChoice]_vars

\* the custom prompt was opened from a menu that lists an item under key C
\* and an item under key c
C21_Witness ==
    /\ prog = "gemini" /\ pc = "g_custom" /\ msg = "custom_prompt"
    /\ "C" \in Range(sorted_keys) /\ "c" \in Range(sorted_keys)
    /\ InMenu(queries_menu, <<"C">>)

====
